---- MODULE Spec2Model ----
(***************************************************************************)
(* Prompt resolution of the LiveKit agent backend (src/src/promptManager.js)*)
(* as a state machine.  Text is a sequence of one-character strings, so     *)
(* that trimming, the placeholder regular expression and String(...) are    *)
(* computed and not assumed.  JavaScript values are tagged records.         *)
(***************************************************************************)
EXTENDS Integers, Sequences, FiniteSets, TLC

(***************************************************************************)
(* Bounds of the model.                                                    *)
(***************************************************************************)
\* a template is the concatenation of at most MaxPieces pieces of Pieces
MaxPieces == 2

(***************************************************************************)
(* Characters and text.                                                    *)
(***************************************************************************)
\* \s of the regular expression and the white space of String.prototype.trim,
\* as far as the texts of the model contain it
SpaceChars == {" ", "\t", "\n"}

\* \w of the regular expression: [A-Za-z0-9_]
WordChars ==
  {"a", "b", "c", "d", "e", "f", "g", "h", "i", "j", "k", "l", "m", "n", "o",
   "p", "q", "r", "s", "t", "u", "v", "w", "x", "y", "z",
   "A", "B", "C", "D", "E", "F", "G", "H", "I", "J", "K", "L", "M", "N", "O",
   "P", "Q", "R", "S", "T", "U", "V", "W", "X", "Y", "Z",
   "0", "1", "2", "3", "4", "5", "6", "7", "8", "9", "_"}

\* [\w.] : the characters of a placeholder key
KeyChars == WordChars \cup {"."}

DigitChars == <<"0", "1", "2", "3", "4", "5", "6", "7", "8", "9">>

RECURSIVE Concat(_)
\* the concatenation of a sequence of texts
Concat(ts) == IF ts = <<>> THEN <<>> ELSE Head(ts) \o Concat(Tail(ts))

RECURSIVE Join(_, _)
\* Array.prototype.join
Join(ts, sep) ==
  IF ts = <<>> THEN <<>>
  ELSE IF Len(ts) = 1 THEN ts[1]
  ELSE ts[1] \o sep \o Join(Tail(ts), sep)

RECURSIVE TrimStart(_)
TrimStart(s) ==
  IF s # <<>> /\ Head(s) \in SpaceChars THEN TrimStart(Tail(s)) ELSE s

RECURSIVE TrimEnd(_)
TrimEnd(s) ==
  IF s # <<>> /\ s[Len(s)] \in SpaceChars
  THEN TrimEnd(SubSeq(s, 1, Len(s) - 1)) ELSE s

\* String.prototype.trim
Trim(s) == TrimEnd(TrimStart(s))

RECURSIVE Split(_, _)
\* String.prototype.split with a one-character separator
Split(s, sep) ==
  IF \E i \in 1..Len(s) : s[i] = sep
  THEN LET i == CHOOSE j \in 1..Len(s) :
                   s[j] = sep /\ \A h \in 1..(j - 1) : s[h] # sep
       IN  <<SubSeq(s, 1, i - 1)>> \o Split(SubSeq(s, i + 1, Len(s)), sep)
  ELSE <<s>>

RECURSIVE SkipWhile(_, _, _)
\* the first position from i on whose character is not in class
SkipWhile(s, i, class) ==
  IF i <= Len(s) /\ s[i] \in class THEN SkipWhile(s, i + 1, class) ELSE i

RECURSIVE NatToStr(_)
\* String(n) of a non-negative integer
NatToStr(n) ==
  IF n < 10 THEN <<DigitChars[n + 1]>>
  ELSE NatToStr(n \div 10) \o <<DigitChars[(n % 10) + 1]>>

(***************************************************************************)
(* JavaScript values.                                                      *)
(***************************************************************************)
Undefined == [t |-> "undefined"]
Null == [t |-> "null"]
Bool(b) == [t |-> "boolean", b |-> b]
Num(n) == [t |-> "number", n |-> n]
Str(s) == [t |-> "string", s |-> s]
Arr(e) == [t |-> "array", e |-> e]
Obj(m) == [t |-> "object", m |-> m]
\* a built-in function, as reached through a prototype
Fn(name, arity) == [t |-> "function", name |-> name, arity |-> arity]

EmptyObj == Obj([k \in {} |-> Undefined])

\* ToBoolean
Truthy(v) ==
  CASE v.t = "undefined" -> FALSE
    [] v.t = "null" -> FALSE
    [] v.t = "boolean" -> v.b
    [] v.t = "number" -> v.n # 0
    [] v.t = "string" -> v.s # <<>>
    [] OTHER -> TRUE

\* value ?? other
Nullish(v) == v.t \in {"undefined", "null"}

kLength == <<"l", "e", "n", "g", "t", "h">>
kConstructor == <<"c", "o", "n", "s", "t", "r", "u", "c", "t", "o", "r">>
kToString == <<"t", "o", "S", "t", "r", "i", "n", "g">>
kValueOf == <<"v", "a", "l", "u", "e", "O", "f">>
kName == <<"n", "a", "m", "e">>
kContent == <<"c", "o", "n", "t", "e", "n", "t">>

\* the constructor each kind of value inherits
ConstructorOf(v) ==
  CASE v.t = "string" -> Fn(<<"S", "t", "r", "i", "n", "g">>, 1)
    [] v.t = "array" -> Fn(<<"A", "r", "r", "a", "y">>, 1)
    [] v.t = "number" -> Fn(<<"N", "u", "m", "b", "e", "r">>, 1)
    [] v.t = "boolean" -> Fn(<<"B", "o", "o", "l", "e", "a", "n">>, 1)
    [] v.t = "function" -> Fn(<<"F", "u", "n", "c", "t", "i", "o", "n">>, 1)
    [] OTHER -> Fn(<<"O", "b", "j", "e", "c", "t">>, 1)

\* properties every value inherits from its prototype chain (the members of
\* Object.prototype that the model's keys can name)
Inherited(v, k) ==
  CASE k = kConstructor -> ConstructorOf(v)
    [] k = kToString -> Fn(kToString, 0)
    [] k = kValueOf -> Fn(kValueOf, 0)
    [] OTHER -> Undefined

\* acc[k] for a truthy acc: own properties first (the keys of an object, the
\* length and the indices of an array or a string, the name and length of a
\* function), then the prototype chain
GetProp(v, k) ==
  LET elems == CASE v.t = "array" -> v.e
                 [] v.t = "string" -> [i \in 1..Len(v.s) |-> Str(<<v.s[i]>>)]
                 [] OTHER -> <<>>
      at == {i \in 1..Len(elems) : NatToStr(i - 1) = k}
  IN  CASE v.t = "object" /\ k \in DOMAIN v.m -> v.m[k]
        [] v.t \in {"array", "string"} /\ k = kLength -> Num(Len(elems))
        [] at # {} -> elems[CHOOSE i \in at : TRUE]
        [] v.t = "function" /\ k = kLength -> Num(v.arity)
        [] v.t = "function" /\ k = kName -> Str(v.name)
        [] OTHER -> Inherited(v, k)

\* the result of an evaluation that may throw
Ok(text) == [ok |-> TRUE, text |-> text]
Threw(err) == [ok |-> FALSE, err |-> err]

RECURSIVE ToStr(_)
\* String(v).  An object converts through its toString property; a JSON
\* object with an own property named toString hides the inherited method
\* with a value that is not callable, and valueOf yields no primitive.
ToStr(v) ==
  CASE v.t = "undefined" -> Ok(<<"u", "n", "d", "e", "f", "i", "n", "e", "d">>)
    [] v.t = "null" -> Ok(<<"n", "u", "l", "l">>)
    [] v.t = "boolean" ->
         Ok(IF v.b THEN <<"t", "r", "u", "e">> ELSE <<"f", "a", "l", "s", "e">>)
    [] v.t = "number" -> Ok(NatToStr(v.n))
    [] v.t = "string" -> Ok(v.s)
    [] v.t = "function" ->
         Ok(<<"f", "u", "n", "c", "t", "i", "o", "n", " ">> \o v.name
            \o <<"(", ")", " ", "{", " ", "[", "n", "a", "t", "i", "v", "e",
                 " ", "c", "o", "d", "e", "]", " ", "}">>)
    [] v.t = "array" ->
         LET parts == [i \in 1..Len(v.e) |->
                         IF Nullish(v.e[i]) THEN Ok(<<>>) ELSE ToStr(v.e[i])]
         IN  IF \E i \in 1..Len(v.e) : ~parts[i].ok
             THEN Threw("TypeError")
             ELSE Ok(Join([i \in 1..Len(v.e) |-> parts[i].text], <<",">>))
    [] v.t = "object" ->
         IF kToString \in DOMAIN v.m
         THEN Threw("TypeError")
         ELSE Ok(<<"[", "o", "b", "j", "e", "c", "t", " ",
                   "O", "b", "j", "e", "c", "t", "]">>)

(***************************************************************************)
(* JSON.parse, for the JSON texts the model passes: objects, arrays,        *)
(* strings without escape sequences, non-negative integers, true, false    *)
(* and null, with white space between the tokens.                          *)
(***************************************************************************)
DigitSet == {DigitChars[n] : n \in 1..10}

RECURSIVE DigitsToNat(_)
\* the number a sequence of digits denotes
DigitsToNat(ds) ==
  IF ds = <<>> THEN 0
  ELSE 10 * DigitsToNat(SubSeq(ds, 1, Len(ds) - 1))
       + ((CHOOSE n \in 1..10 : DigitChars[n] = ds[Len(ds)]) - 1)

\* a parse that failed, and one that yielded v and stopped before position next
NoParse == [ok |-> FALSE]
Parsed(v, next) == [ok |-> TRUE, v |-> v, next |-> next]

\* the word starts at position i of s
StartsWith(s, i, word) ==
  /\ i + Len(word) - 1 <= Len(s)
  /\ SubSeq(s, i, i + Len(word) - 1) = word

\* a JSON string that starts at position i: no raw control character inside
ParseString(s, i) ==
  LET ends == {j \in (i + 1)..Len(s) : s[j] = "\""}
  IN  IF i > Len(s) \/ s[i] # "\"" \/ ends = {} THEN NoParse
      ELSE LET j == CHOOSE h \in ends : \A g \in ends : h <= g
               body == SubSeq(s, i + 1, j - 1)
           IN  IF \E h \in 1..Len(body) : body[h] \in {"\n", "\t"}
               THEN NoParse
               ELSE Parsed(Str(body), j + 1)

\* a JSON number that starts at position i: 0, or digits without leading 0
ParseNumber(s, i) ==
  LET k == IF s[i] = "0" THEN i + 1 ELSE SkipWhile(s, i, DigitSet)
  IN  Parsed(Num(DigitsToNat(SubSeq(s, i, k - 1))), k)

RECURSIVE ParseValue(_, _)
RECURSIVE ParseMembers(_, _, _)
RECURSIVE ParseElements(_, _, _)

\* the members of an object from position i0 on, m being those read so far;
\* a key that occurs again replaces the earlier one
ParseMembers(s, i0, m) ==
  LET i == SkipWhile(s, i0, SpaceChars)
      k == ParseString(s, i)
      j == IF k.ok THEN SkipWhile(s, k.next, SpaceChars) ELSE 0
  IN  IF ~k.ok \/ j > Len(s) \/ s[j] # ":" THEN NoParse
      ELSE LET v == ParseValue(s, j + 1)
               m2 == (k.v.s :> v.v) @@ m
           IN  IF ~v.ok \/ v.next > Len(s) THEN NoParse
               ELSE IF s[v.next] = "," THEN ParseMembers(s, v.next + 1, m2)
               ELSE IF s[v.next] = "}" THEN Parsed(Obj(m2), v.next + 1)
               ELSE NoParse

\* the elements of an array from position i0 on, e being those read so far
ParseElements(s, i0, e) ==
  LET v == ParseValue(s, i0)
  IN  IF ~v.ok \/ v.next > Len(s) THEN NoParse
      ELSE IF s[v.next] = "," THEN ParseElements(s, v.next + 1, Append(e, v.v))
      ELSE IF s[v.next] = "]" THEN Parsed(Arr(Append(e, v.v)), v.next + 1)
      ELSE NoParse

\* a JSON value with the white space around it, from position i0 on
ParseValue(s, i0) ==
  LET i == SkipWhile(s, i0, SpaceChars)
      after == SkipWhile(s, i + 1, SpaceChars)
      r == IF i > Len(s) THEN NoParse
           ELSE CASE s[i] = "{" ->
                       IF after <= Len(s) /\ s[after] = "}"
                       THEN Parsed(EmptyObj, after + 1)
                       ELSE ParseMembers(s, i + 1, EmptyObj.m)
                  [] s[i] = "[" ->
                       IF after <= Len(s) /\ s[after] = "]"
                       THEN Parsed(Arr(<<>>), after + 1)
                       ELSE ParseElements(s, i + 1, <<>>)
                  [] s[i] = "\"" -> ParseString(s, i)
                  [] s[i] \in DigitSet -> ParseNumber(s, i)
                  [] StartsWith(s, i, <<"t", "r", "u", "e">>) ->
                       Parsed(Bool(TRUE), i + 4)
                  [] StartsWith(s, i, <<"f", "a", "l", "s", "e">>) ->
                       Parsed(Bool(FALSE), i + 5)
                  [] StartsWith(s, i, <<"n", "u", "l", "l">>) ->
                       Parsed(Null, i + 4)
                  [] OTHER -> NoParse
  IN  IF r.ok THEN Parsed(r.v, SkipWhile(s, r.next, SpaceChars)) ELSE r

\* JSON.parse(s): the value, or the SyntaxError it throws
JSONparse(s) ==
  LET r == ParseValue(s, 1)
  IN  IF r.ok /\ r.next = Len(s) + 1 THEN [ok |-> TRUE, v |-> r.v]
      ELSE Threw("SyntaxError")

(***************************************************************************)
(* The helpers of generatePrompt.                                          *)
(***************************************************************************)
\* one element of a chat prompt, as toStringPrompt renders it
MessageText(m) ==
  IF Truthy(m) /\ m.t \in {"object", "array"}
  THEN LET content == GetProp(m, kContent)
       IN  ToStr(IF Nullish(content) THEN Str(<<>>) ELSE content)
  ELSE ToStr(IF Nullish(m) THEN Str(<<>>) ELSE m)

\* coerce a chat or text prompt into a string
toStringPrompt(value) ==
  CASE value.t = "string" -> Ok(value.s)
    [] value.t = "array" ->
         LET parts == [i \in 1..Len(value.e) |-> MessageText(value.e[i])]
         IN  IF \E i \in 1..Len(value.e) : ~parts[i].ok
             THEN Threw("TypeError")
             ELSE Ok(Join([i \in 1..Len(value.e) |-> parts[i].text], <<"\n">>))
    [] OTHER -> ToStr(IF Nullish(value) THEN Str(<<>>) ELSE value)

\* a match of /{{([\w.]+)}}/, which allows no white space inside the braces
MatchAt_NoInnerSpace(s, i) ==
  LET k == SkipWhile(s, i + 2, KeyChars)
  IN  IF /\ i + 1 <= Len(s)
         /\ s[i] = "{"
         /\ s[i + 1] = "{"
         /\ k > i + 2
         /\ k + 1 <= Len(s)
         /\ s[k] = "}"
         /\ s[k + 1] = "}"
      THEN [found |-> TRUE, key |-> SubSeq(s, i + 2, k - 1), last |-> k + 1]
      ELSE [found |-> FALSE]

\* a match of /{{\s*([\w.]+)\s*}}/ that starts at position i of s
MatchAt(s, i) ==
  LET j == SkipWhile(s, i + 2, SpaceChars)
      k == SkipWhile(s, j, KeyChars)
      l == SkipWhile(s, k, SpaceChars)
  IN  IF /\ i + 1 <= Len(s)
         /\ s[i] = "{"
         /\ s[i + 1] = "{"
         /\ k > j
         /\ l + 1 <= Len(s)
         /\ s[l] = "}"
         /\ s[l + 1] = "}"
      THEN [found |-> TRUE, key |-> SubSeq(s, j, k - 1), last |-> l + 1]
      ELSE [found |-> FALSE]

RECURSIVE Reduce(_, _)
\* key.split('.').reduce((acc, k) => acc && acc[k] !== undefined ? acc[k] : undefined, vars)
Reduce(acc, ks) ==
  IF ks = <<>> THEN acc
  ELSE Reduce(IF Truthy(acc) /\ GetProp(acc, Head(ks)) # Undefined
              THEN GetProp(acc, Head(ks)) ELSE Undefined,
              Tail(ks))

\* the replacement callback of manualCompile
Replacement(key, vars) ==
  LET value == Reduce(vars, Split(key, "."))
  IN  IF Nullish(value) THEN Ok(<<>>) ELSE ToStr(value)

RECURSIVE ReplaceFrom(_, _, _)
\* String.prototype.replace with the global placeholder expression: the
\* leftmost match from position i on is replaced, the text before it is kept,
\* and the scan goes on behind the match
ReplaceFrom(s, i, vars) ==
  LET starts == {j \in i..Len(s) : MatchAt(s, j).found}
  IN  IF starts = {} THEN Ok(SubSeq(s, i, Len(s)))
      ELSE LET j == CHOOSE h \in starts : \A g \in starts : h <= g
               m == MatchAt(s, j)
               r == Replacement(m.key, vars)
               rest == ReplaceFrom(s, m.last + 1, vars)
           IN  IF ~r.ok THEN r
               ELSE IF ~rest.ok THEN rest
               ELSE Ok(SubSeq(s, i, j - 1) \o r.text \o rest.text)

\* a replacement whose result is scanned for placeholders once more
manualCompile_Rescanned(template, vars) ==
  LET text == toStringPrompt(template)
      once == ReplaceFrom(text.text, 1, vars)
  IN  IF ~text.ok THEN text
      ELSE IF ~once.ok THEN once
      ELSE ReplaceFrom(once.text, 1, vars)

\* manual {{ var }} replacement
manualCompile(template, vars) ==
  LET text == toStringPrompt(template)
  IN  IF ~text.ok THEN text ELSE ReplaceFrom(text.text, 1, vars)

(***************************************************************************)
(* Inputs: requests (details), and what the remote prompt service answers. *)
(***************************************************************************)
\* the calls of generatePrompt the model can follow; Spec follows the first
CallIds == {1, 2}

tHi == <<"H", "i", " ">>
tGreeting == <<"g", "r", "e", "e", "t", "i", "n", "g">>
tV2 == <<"v", "2">>
kA == <<"a">>
kB == <<"b">>

kUser == <<"u", "s", "e", "r">>
tAda == <<"A", "d", "a">>
tHello ==
  <<"H", "e", "l", "l", "o", " ", "{", "{", " ", "u", "s", "e", "r", ".", "n",
    "a", "m", "e", " ", "}", "}", "!">>
tPlaceA == <<"{", "{", "a", "}", "}">>
tPlaceB == <<"{", "{", " ", "b", " ", "}", "}">>

\* the pieces templates are made of: text, white space, placeholders with
\* and without inner white space, and text that only resembles a placeholder
Pieces ==
  {<<" ">>,
   tHi,
   <<"{", "{">>,
   <<"{", "{", "a", "}", "}">>,
   <<"{", "{", " ", "a", ".", "b", " ", "}", "}">>,
   <<"{", "{", " ", "a", ".", "l", "e", "n", "g", "t", "h", " ", "}", "}">>,
   <<"{", "{", " ", "t", "o", "S", "t", "r", "i", "n", "g", " ", "}", "}">>,
   <<"{", "{", " ", "m", "i", "s", "s", "i", "n", "g", ".", "p", "a", "t", "h",
     " ", "}", "}">>,
   <<"{", "{", " ", "a", " ", "b", " ", "}", "}">>}

\* every text made of at most MaxPieces pieces
Templates ==
  UNION {{Concat(ps) : ps \in [1..n -> Pieces]} : n \in 0..MaxPieces}

\* values of details.prompt_variables
VariableValues ==
  {Undefined,
   Null,
   Num(7),
   EmptyObj,
   Obj(kA :> Obj(kB :> Str(<<"x">>))),
   Obj(kA :> Str(<<"x", "y">>)),
   Obj(kA :> Num(0)),
   Obj(kA :> Arr(<<Str(<<"x">>), Null>>)),
   Obj(kA :> Obj(kToString :> Num(1)))}

\* the details objects generatePrompt is called with
Requests ==
  [prompt_name : {Undefined, Str(<<>>), Str(tGreeting)},
   prompt_label : {Undefined, Str(<<>>), Str(tV2)},
   prompt_text : {Undefined, Null} \cup {Str(t) : t \in Templates},
   prompt_variables : VariableValues]

\* a chat prompt: an array of messages
ChatPrompt(content) ==
  Arr(<<Obj((<<"r", "o", "l", "e">> :> Str(<<"s", "y", "s", "t", "e", "m">>))
            @@ (kContent :> content))>>)

\* what a compile function of the SDK may hand back
CompileReturns ==
  {Str(tHi), Str(<<>>), Undefined, Null, Num(7), EmptyObj,
   ChatPrompt(Str(tHi)), ChatPrompt(Obj(kToString :> Num(1)))}

\* a fetched prompt object: its prompt field, and whether it has a compile
\* function and what that function does
PromptObject(prompt, compile, returns) ==
  [t |-> "prompt", prompt |-> prompt, compile |-> compile, returns |-> returns]

\* what langfuse.prompt.get may resolve to
FetchedValues ==
  {Undefined, Null}
  \cup {PromptObject(Str(t), "absent", Undefined) : t \in Templates}
  \cup {PromptObject(Undefined, "absent", Undefined),
        PromptObject(ChatPrompt(Str(tHi)), "absent", Undefined),
        PromptObject(Str(tHello), "absent", Undefined),
        PromptObject(Str(tHi), "throws", Undefined)}
  \cup {PromptObject(Str(tHi), "returns", v) : v \in CompileReturns}

\* prompt_variables given as text that JSON.parse rejects: the empty text,
\* an unquoted key, text behind the value, a value cut short
InvalidJsonTexts ==
  {<<>>,
   <<"{", "a", ":", "1", "}">>,
   <<"{", "\"", "a", "\"", ":", "\"", "x", "\"", "}", " ", "x">>,
   <<"{", "\"", "a", "\"", ":">>}

\* prompt_variables given as JSON text of a string, a number, null, true
PrimitiveJsonTexts ==
  {<<"\"", "x", "y", "\"">>,
   <<"7">>,
   <<"n", "u", "l", "l">>,
   <<"t", "r", "u", "e">>}

\* prompt_variables given as JSON text of an array
ArrayJsonTexts == {<<"[", "\"", "x", "\"", "]">>}

\* prompt_variables given as JSON text of an object
ObjectJsonTexts ==
  {<<"{", "\"", "a", "\"", ":", "{", "\"", "b", "\"", ":", "\"", "x", "\"", "}",
     "}">>,
   <<" ", "{", "\"", "u", "s", "e", "r", "\"", ":", " ", "{", "\"", "n", "a",
     "m", "e", "\"", ":", " ", "\"", "A", "d", "a", "\"", "}", "}", " ">>,
   <<"{", "\"", "a", "\"", ":", "n", "u", "l", "l", "}">>}

\* values of details.prompt_variables for the requests that exercise the
\* substitution: mappings (one with a null member, two whose values look
\* like placeholders), values that are no mapping, and JSON text
SubstitutionVariables ==
  {Obj(kA :> Obj(kB :> Str(<<"x">>))),
   Obj(kUser :> Obj(kName :> Str(tAda))),
   Obj(kA :> Null),
   Obj((kA :> Str(tPlaceB)) @@ (kB :> Str(<<"x">>))),
   Obj(kA :> Str(tPlaceA)),
   Arr(<<Str(<<"x">>)>>),
   Num(7),
   Bool(TRUE)}
  \cup {Str(t) : t \in InvalidJsonTexts \cup PrimitiveJsonTexts
                        \cup ArrayJsonTexts \cup ObjectJsonTexts}

\* the inline texts of those requests
SubstitutionTemplates ==
  {tPlaceA,
   tPlaceB,
   <<"{", "{", "a", ".", "b", "}", "}">>,
   <<"{", "{", " ", "a", ".", "b", " ", "}", "}">>,
   tHi \o <<"{", "{", " ", "a", ".", "b", " ", "}", "}", "!">>,
   tPlaceA \o tPlaceB,
   <<"{", "{", " ", "0", " ", "}", "}">>,
   <<"{", "{", " ", "l", "e", "n", "g", "t", "h", " ", "}", "}">>,
   <<"{", "{", " ", "t", "o", "S", "t", "r", "i", "n", "g", " ", "}", "}">>,
   tHello}

SubstitutionRequests ==
  [prompt_name : {Undefined, Str(tGreeting)},
   prompt_label : {Undefined, Str(tV2)},
   prompt_text : {Undefined} \cup {Str(t) : t \in SubstitutionTemplates},
   prompt_variables : SubstitutionVariables]

\* the requests of sessions that resolve their prompts at the same time
ConcurrentRequests ==
  [prompt_name : {Str(tGreeting)},
   prompt_label : {Undefined, Str(tV2)},
   prompt_text : {Undefined, Str(tPlaceA)},
   prompt_variables : {Obj(kA :> Obj(kB :> Str(<<"x">>))),
                       Obj(kA :> Str(<<"x", "y">>))}]

\* what langfuse.prompt.get may resolve to for them
ConcurrentFetched ==
  {Undefined,
   PromptObject(Str(tPlaceA), "absent", Undefined),
   PromptObject(Str(tHi), "returns", Str(tHi)),
   PromptObject(Str(tHi), "throws", Undefined)}

(***************************************************************************)
(* generatePrompt.                                                         *)
(***************************************************************************)
DEFAULT_PROMPT ==
  <<"Y", "o", "u", " ", "a", "r", "e", " ", "a", " ", "h", "e", "l", "p", "f",
    "u", "l", ",", " ", "c", "o", "n", "c", "i", "s", "e", " ", "v", "o", "i",
    "c", "e", " ", "a", "s", "s", "i", "s", "t", "a", "n", "t", ".", " ", "P",
    "r", "o", "v", "i", "d", "e", " ", "c", "l", "e", "a", "r", ",", " ", "d",
    "i", "r", "e", "c", "t", " ", "a", "n", "s", "w", "e", "r", "s", ".">>

\* how a call of generatePrompt ends
Pending == [kind |-> "pending"]
Returned(text) == [kind |-> "returned", value |-> text]
Thrown(err) == [kind |-> "threw", error |-> err]

\* return x || '' , or the exception x raised
Settle(r) == IF r.ok THEN Returned(r.text) ELSE Thrown(r.err)

\* a client handle made as soon as one of the two keys is set
InitLangfuse_EitherKey(publicKey, secretKey, constructorThrows) ==
  IF (publicKey \/ secretKey) /\ ~constructorThrows THEN "client" ELSE "null"

\* let langfuse = null; ... the module's initialisation of the client handle
InitLangfuse(publicKey, secretKey, constructorThrows) ==
  IF publicKey /\ secretKey /\ ~constructorThrows THEN "client" ELSE "null"

\* const label = details?.prompt_label || undefined
LabelOf(d) == IF Truthy(d.prompt_label) THEN d.prompt_label ELSE Undefined

\* const promptTextRaw = typeof details?.prompt_text === 'string' ? ... : ''
PromptTextRawOf(d) == IF d.prompt_text.t = "string" THEN d.prompt_text.s ELSE <<>>

\* the inline text taken as it is given
PromptTextOf_Untrimmed(d) == PromptTextRawOf(d)

\* const promptText = String(promptTextRaw || '').trim()
PromptTextOf(d) == Trim(PromptTextRawOf(d))

\* JSON.parse(variables) in its try block, followed by the test of line 34:
\* {} when the text does not parse or parses to no object
ParsedVariables(s) ==
  LET r == JSONparse(s)
  IN  IF r.ok /\ r.v.t \in {"object", "array"} THEN r.v ELSE EmptyObj

\* the normalised variables: details.prompt_variables ?? {}, parsed when it
\* is a string, and {} when the result is falsy or not of type 'object'
\* (the truthy values of that type are the objects and the arrays)
VariablesOf(d) ==
  IF d.prompt_variables.t = "string"
  THEN ParsedVariables(d.prompt_variables.s)
  ELSE IF d.prompt_variables.t \in {"object", "array"} THEN d.prompt_variables
  ELSE EmptyObj

\* the static fallback: manualCompile(<default>, variables) || ''
Fallback(variables) == Settle(manualCompile(Str(DEFAULT_PROMPT), variables))

\* the first langfuse.prompt.get of a call
FirstGet(d) ==
  [name |-> d.prompt_name, label |-> LabelOf(d)]

\* a retry that repeats the labelled call
SecondGet_KeepsLabel(d) ==
  [name |-> d.prompt_name, label |-> LabelOf(d)]

\* the langfuse.prompt.get of the inner catch
SecondGet(d) ==
  [name |-> d.prompt_name, label |-> Undefined]

\* the remote tier consulted before the inline text
BeforeGet_RemoteFirst(d, client, variables) ==
  IF ~Truthy(d.prompt_name) THEN Thrown("Missing prompt_name in details")
  ELSE IF client # "null" THEN Pending
  ELSE IF Len(PromptTextOf(d)) > 0
       THEN Settle(manualCompile(Str(PromptTextOf(d)), variables))
  ELSE Fallback(variables)

\* the static fallback handed out before the name is validated
BeforeGet_FallbackUnvalidated(d, client, variables) ==
  IF client = "null" /\ Len(PromptTextOf(d)) = 0 THEN Fallback(variables)
  ELSE IF ~Truthy(d.prompt_name) THEN Thrown("Missing prompt_name in details")
  ELSE IF Len(PromptTextOf(d)) > 0
       THEN Settle(manualCompile(Str(PromptTextOf(d)), variables))
  ELSE Pending

\* generatePrompt from the name check to its first await, variables being
\* the normalised variables: the outcome, when it ends there
BeforeGet(d, client, variables) ==
  IF ~Truthy(d.prompt_name) THEN Thrown("Missing prompt_name in details")
  ELSE IF Len(PromptTextOf(d)) > 0
       THEN Settle(manualCompile(Str(PromptTextOf(d)), variables))
  ELSE IF client = "null" THEN Fallback(variables)
  ELSE Pending

\* the outer try from the binding of fetched to the binding of compiledText:
\* the value bound, or the exception raised before
CompiledText(fetched, variables) ==
  IF ~Truthy(fetched) THEN Threw("Prompt not found")
  ELSE IF fetched.compile = "throws" THEN Threw("compile")
  ELSE IF fetched.compile = "returns" THEN [ok |-> TRUE, value |-> fetched.returns]
  ELSE LET r == manualCompile(IF Truthy(fetched.prompt) THEN fetched.prompt
                              ELSE Str(<<>>), variables)
       IN  IF r.ok THEN [ok |-> TRUE, value |-> Str(r.text)] ELSE r

\* an outer catch that rethrows
Finish_Rethrows(ct, variables) ==
  IF ~ct.ok THEN Thrown(ct.err)
  ELSE LET compiledString == toStringPrompt(ct.value)
       IN  IF compiledString.ok THEN Returned(compiledString.text)
           ELSE Thrown(compiledString.err)

\* a fetched prompt that is never used
Finish_AlwaysFallback(ct, variables) == Fallback(variables)

\* the rest of generatePrompt: return toStringPrompt(compiledText), or the
\* outer catch's fallback when anything in the try block threw
Finish(ct, variables) ==
  IF ~ct.ok THEN Fallback(variables)
  ELSE LET compiledString == toStringPrompt(ct.value)
       IN  IF compiledString.ok THEN Returned(compiledString.text)
           ELSE Fallback(variables)

(***************************************************************************)
(* State.                                                                  *)
(***************************************************************************)
VARIABLES
  env,       \* which of the two credentials the process environment holds
  langfuse,  \* the module's client handle: "client" or "null"
  pc,        \* per call: "off", "idle", "get1", "get2", "done"
  details,   \* per call: the argument of generatePrompt
  callVariables, \* per call: the local variables, once it is normalised
  gets,      \* per call: the langfuse.prompt.get calls made, with their ends
  compiledText, \* per call: the local compiledText, once the try block binds it
  outcome,   \* per call: Pending, Returned(text) or Thrown(error)
  session,   \* the agent's job: where entry stands and what it has built
  db,        \* the database: the conversations table, its columns and rows
  posts,     \* per POST /api/conversations request: where its handler stands
  issued     \* the ids randomUUID has generated

vars == <<env, langfuse, pc, details, callVariables, gets, compiledText, outcome,
          session, db, posts, issued>>

\* what the API server holds and uses
apiVars == <<db, posts, issued>>

\* compiledText before the try block has run
Unbound == [ok |-> FALSE, err |-> "unbound"]

NoDetails ==
  [prompt_name |-> Undefined, prompt_label |-> Undefined,
   prompt_text |-> Undefined, prompt_variables |-> Undefined]

\* module initialisation has run; no call has been made
InitWith(active) ==
  /\ env \in [LANGFUSE_PUBLIC_KEY : BOOLEAN, LANGFUSE_SECRET_KEY : BOOLEAN]
  /\ \E constructorThrows \in BOOLEAN :
       langfuse = InitLangfuse(env.LANGFUSE_PUBLIC_KEY, env.LANGFUSE_SECRET_KEY,
                               constructorThrows)
  /\ pc = [c \in CallIds |-> IF c \in active THEN "idle" ELSE "off"]
  /\ details = [c \in CallIds |-> NoDetails]
  /\ callVariables = [c \in CallIds |-> Undefined]
  /\ gets = [c \in CallIds |-> <<>>]
  /\ compiledText = [c \in CallIds |-> Unbound]
  /\ outcome = [c \in CallIds |-> Pending]

\* the requests the API server handles at a time
PostIds == {1, 2}

\* the agent's job as entry finds it, with the process's
\* ENABLE_NOISE_CANCELLATION setting
SessionAt(at, noise) ==
  [pc |-> at, noise |-> noise, attributes |-> NoDetails,
   prompt_variables |-> Undefined, invocations |-> 0,
   initial_content |-> Undefined, chatCtx |-> <<>>,
   agentStarted |-> FALSE, said |-> Undefined]

\* no job has been dispatched to the agent
NoSession == session = SessionAt("off", FALSE)

\* the state of a request handler that has not been entered
NoPost ==
  [pc |-> "off", body |-> Undefined, adding |-> 0, metaDataExists |-> FALSE,
   id |-> Undefined, calls |-> <<>>, status |-> 0, responseId |-> Undefined]

\* a database in which initDb has never run, and no request
NoApi ==
  /\ db = [table |-> FALSE, columns |-> {}, rows |-> {}, writes |-> <<>>]
  /\ posts = [r \in PostIds |-> NoPost]
  /\ issued = {}

\* one session resolves its prompt
Init == InitWith({1}) /\ NoSession /\ NoApi

\* the request and the normalised variables kept in module-level variables,
\* which every call in progress reads
Call_SharedRequest(c, d) ==
  LET out == BeforeGet(d, langfuse, callVariables'[c])
  IN  /\ details' = [o \in CallIds |-> d]
      /\ callVariables' = [o \in CallIds |-> VariablesOf(d)]
      /\ outcome' = [outcome EXCEPT ![c] = out]
      /\ IF out = Pending
         THEN /\ pc' = [pc EXCEPT ![c] = "get1"]
              /\ gets' = [gets EXCEPT ![c] =
                            <<[call |-> FirstGet(d), end |-> "pending"]>>]
         ELSE /\ pc' = [pc EXCEPT ![c] = "done"]
              /\ gets' = gets
      /\ UNCHANGED <<env, langfuse, compiledText>>

\* generatePrompt(d) runs as call c to its first await, or to its end
Call(c, d) ==
  LET out == BeforeGet(d, langfuse, callVariables'[c])
  IN  /\ details' = [details EXCEPT ![c] = d]
      /\ callVariables' = [callVariables EXCEPT ![c] = VariablesOf(d)]
      /\ outcome' = [outcome EXCEPT ![c] = out]
      /\ IF out = Pending
         THEN /\ pc' = [pc EXCEPT ![c] = "get1"]
              /\ gets' = [gets EXCEPT ![c] =
                            <<[call |-> FirstGet(d), end |-> "pending"]>>]
         ELSE /\ pc' = [pc EXCEPT ![c] = "done"]
              /\ gets' = gets
      /\ UNCHANGED <<env, langfuse, compiledText>>

\* generatePrompt is called with any of the requests
Invoke(c) ==
  /\ pc[c] = "idle"
  /\ \E d \in Requests : Call(c, d)
  /\ UNCHANGED <<session, apiVars>>

\* generatePrompt is called with a request that exercises the substitution
InvokeSubstitution(c) ==
  /\ pc[c] = "idle"
  /\ \E d \in SubstitutionRequests : Call(c, d)
  /\ UNCHANGED <<session, apiVars>>

\* generatePrompt is called while another call may be in progress
InvokeConcurrent(c) ==
  /\ pc[c] = "idle"
  /\ \E d \in ConcurrentRequests : Call(c, d)
  /\ UNCHANGED <<session, apiVars>>

\* the first get rejects: the inner catch issues the get without label
FirstGetRejects(c) ==
  /\ pc[c] = "get1"
  /\ pc' = [pc EXCEPT ![c] = "get2"]
  /\ gets' = [gets EXCEPT ![c] =
                <<[@[1] EXCEPT !.end = "rejected"],
                  [call |-> SecondGet(details[c]), end |-> "pending"]>>]
  /\ UNCHANGED <<env, langfuse, details, callVariables, compiledText, outcome>>
  /\ UNCHANGED <<session, apiVars>>

\* a get resolves to fetched: the rest of the try block runs
Resolve(c, fetched) ==
  /\ pc' = [pc EXCEPT ![c] = "done"]
  /\ gets' = [gets EXCEPT ![c] =
                [@ EXCEPT ![Len(@)] = [call |-> @.call, end |-> "resolved",
                                       fetched |-> fetched]]]
  /\ compiledText' = [compiledText EXCEPT ![c] =
                        CompiledText(fetched, callVariables[c])]
  /\ outcome' = [outcome EXCEPT ![c] =
                   Finish(compiledText'[c], callVariables[c])]
  /\ UNCHANGED <<env, langfuse, details, callVariables>>

\* the first get resolves
FirstGetResolves(c) ==
  /\ pc[c] = "get1"
  /\ \E fetched \in FetchedValues : Resolve(c, fetched)
  /\ UNCHANGED <<session, apiVars>>

\* the first get of one of several calls in progress resolves
FirstGetResolvesConcurrent(c) ==
  /\ pc[c] = "get1"
  /\ \E fetched \in ConcurrentFetched : Resolve(c, fetched)
  /\ UNCHANGED <<session, apiVars>>

\* the second get rejects: the outer catch returns the fallback
SecondGetRejects(c) ==
  /\ pc[c] = "get2"
  /\ pc' = [pc EXCEPT ![c] = "done"]
  /\ gets' = [gets EXCEPT ![c] = [@ EXCEPT ![2].end = "rejected"]]
  /\ outcome' = [outcome EXCEPT ![c] = Fallback(callVariables[c])]
  /\ UNCHANGED <<env, langfuse, details, callVariables, compiledText>>
  /\ UNCHANGED <<session, apiVars>>

\* the second get resolves
SecondGetResolves(c) ==
  /\ pc[c] = "get2"
  /\ \E fetched \in FetchedValues : Resolve(c, fetched)
  /\ UNCHANGED <<session, apiVars>>

\* the second get of one of several calls in progress resolves
SecondGetResolvesConcurrent(c) ==
  /\ pc[c] = "get2"
  /\ \E fetched \in ConcurrentFetched : Resolve(c, fetched)
  /\ UNCHANGED <<session, apiVars>>

Next ==
  \E c \in CallIds :
    \/ Invoke(c)
    \/ FirstGetRejects(c)
    \/ FirstGetResolves(c)
    \/ SecondGetRejects(c)
    \/ SecondGetResolves(c)

Spec == Init /\ [][Next]_vars

\* one session resolves a prompt whose variables are to be substituted
NextSubstitution ==
  \E c \in CallIds :
    \/ InvokeSubstitution(c)
    \/ FirstGetRejects(c)
    \/ FirstGetResolves(c)
    \/ SecondGetRejects(c)
    \/ SecondGetResolves(c)

SpecSubstitution == Init /\ [][NextSubstitution]_vars

\* two sessions resolve their prompts, their calls interleaved at the awaits
InitConcurrent == InitWith(CallIds) /\ NoSession /\ NoApi

NextConcurrent ==
  \E c \in CallIds :
    \/ InvokeConcurrent(c)
    \/ FirstGetRejects(c)
    \/ FirstGetResolvesConcurrent(c)
    \/ SecondGetRejects(c)
    \/ SecondGetResolvesConcurrent(c)

SpecConcurrent == InitConcurrent /\ [][NextConcurrent]_vars

(***************************************************************************)
(* The agent's entry function: one job, from the connection to the room    *)
(* to the initial utterance.                                               *)
(***************************************************************************)
kInitialContent ==
  <<"i", "n", "i", "t", "i", "a", "l", "_", "c", "o", "n", "t", "e", "n", "t">>

\* the greeting spoken when the variables give no initial content
DefaultInitialContent ==
  <<"H", "e", "l", "l", "o", "!", " ", "I", "'", "m", " ", "y", "o", "u", "r",
    " ", "A", "I", " ", "a", "s", "s", "i", "s", "t", "a", "n", "t", ".", " ",
    "L", "e", "t", "'", "s", " ", "g", "e", "t", " ", "s", "t", "a", "r", "t",
    "e", "d", ".">>

\* {"initial_content":" Hi "}
jsonInitialContent ==
  <<"{", "\"", "i", "n", "i", "t", "i", "a", "l", "_", "c", "o", "n", "t",
    "e", "n", "t", "\"", ":", "\"", " ", "H", "i", " ", "\"", "}">>

\* {"initial_content":{"toString":1}}
jsonInitialContentObject ==
  <<"{", "\"", "i", "n", "i", "t", "i", "a", "l", "_", "c", "o", "n", "t",
    "e", "n", "t", "\"", ":", "{", "\"", "t", "o", "S", "t", "r", "i", "n",
    "g", "\"", ":", "1", "}", "}">>

\* {"a":"x"}
jsonA == <<"{", "\"", "a", "\"", ":", "\"", "x", "\"", "}">>

\* the attributes a participant joins with
SessionAttributes ==
  [prompt_name : {Undefined, Str(tGreeting)},
   prompt_label : {Undefined, Str(tV2)},
   prompt_text : {Undefined, Str(tHi), Str(tPlaceA)},
   prompt_variables :
     {Undefined, Str(jsonInitialContent), Str(jsonInitialContentObject),
      Str(jsonA), Str(<<"{", "a", ":">>),
      Str(<<"n", "u", "l", "l">>), Obj(kA :> Str(<<"x", "y">>))}]

\* the local prompt_variables of entry
EntryVariables(attributes) ==
  IF attributes.prompt_variables.t = "string"
  THEN LET r == JSONparse(attributes.prompt_variables.s)
       IN  IF r.ok THEN r.v ELSE EmptyObj
  ELSE IF attributes.prompt_variables.t \in {"object", "array"}
       THEN attributes.prompt_variables
       ELSE EmptyObj

\* String(prompt_variables?.initial_content || '').trim() || the default
InitialContent(variables) ==
  LET given == IF Nullish(variables) THEN Undefined
               ELSE GetProp(variables, kInitialContent)
      text == IF Truthy(given) THEN ToStr(given) ELSE Ok(<<>>)
  IN  IF ~text.ok THEN text
      ELSE IF Trim(text.text) # <<>> THEN Ok(Trim(text.text))
      ELSE Ok(DefaultInitialContent)

\* new llm.ChatContext().append({role: SYSTEM, text: prompt})
InitialContext(prompt) == <<[role |-> "SYSTEM", text |-> prompt]>>

\* a job is dispatched: entry runs to its first await
InitSession ==
  /\ InitWith({})
  /\ \E noise \in BOOLEAN : session = SessionAt("connecting", noise)
  /\ NoApi

\* ctx.connect resolves: entry waits for the participant
Connected ==
  /\ session.pc = "connecting"
  /\ session' = [session EXCEPT !.pc = "waiting"]
  /\ UNCHANGED <<env, langfuse, pc, details, callVariables, gets,
                 compiledText, outcome, apiVars>>

\* waitForParticipant resolves: entry reads the attributes and calls
\* generatePrompt
ParticipantJoins ==
  /\ session.pc = "waiting"
  /\ \E attributes \in SessionAttributes :
       /\ session' = [session EXCEPT
                        !.pc = "resolving",
                        !.attributes = attributes,
                        !.prompt_variables = EntryVariables(attributes),
                        !.invocations = @ + 1]
       /\ Call(1, [prompt_name |-> attributes.prompt_name,
                   prompt_label |-> attributes.prompt_label,
                   prompt_text |-> attributes.prompt_text,
                   prompt_variables |-> session'.prompt_variables])
  /\ UNCHANGED apiVars

\* the agent is constructed and started, and say is called
Started(s) == [s EXCEPT !.pc = "saying", !.agentStarted = TRUE,
                        !.said = Str(s.initial_content)]

\* the awaited generatePrompt settles although the call has not ended
PromptReturns_NotAwaited ==
  /\ session.pc = "resolving"
  /\ pc[1] \in {"get1", "done"}
  /\ outcome[1].kind # "threw"
  /\ session' =
       Started([session EXCEPT
                  !.initial_content = DefaultInitialContent,
                  !.chatCtx = InitialContext(IF pc[1] = "done"
                                             THEN outcome[1].value
                                             ELSE <<>>)])
  /\ UNCHANGED <<env, langfuse, pc, details, callVariables, gets,
                 compiledText, outcome, apiVars>>

\* generatePrompt has returned the prompt: entry builds the chat context
\* and, unless it first imports the noise cancellation, starts the agent
PromptReturns ==
  /\ session.pc = "resolving"
  /\ pc[1] = "done"
  /\ outcome[1].kind = "returned"
  /\ LET content == InitialContent(session.prompt_variables)
     IN  IF ~content.ok
         THEN session' = [session EXCEPT !.pc = "failed"]
         ELSE LET built == [session EXCEPT
                              !.initial_content = content.text,
                              !.chatCtx = InitialContext(outcome[1].value)]
              IN  session' = IF session.noise
                             THEN [built EXCEPT !.pc = "importing"]
                             ELSE Started(built)
  /\ UNCHANGED <<env, langfuse, pc, details, callVariables, gets,
                 compiledText, outcome, apiVars>>

\* generatePrompt has thrown: entry rejects
PromptThrows ==
  /\ session.pc = "resolving"
  /\ pc[1] = "done"
  /\ outcome[1].kind = "threw"
  /\ session' = [session EXCEPT !.pc = "failed"]
  /\ UNCHANGED <<env, langfuse, pc, details, callVariables, gets,
                 compiledText, outcome, apiVars>>

\* the import of the noise cancellation settles, either way
ImportSettles ==
  /\ session.pc = "importing"
  /\ session' = Started(session)
  /\ UNCHANGED <<env, langfuse, pc, details, callVariables, gets,
                 compiledText, outcome, apiVars>>

\* agent.say resolves: entry returns
SayResolves ==
  /\ session.pc = "saying"
  /\ session' = [session EXCEPT !.pc = "ended"]
  /\ UNCHANGED <<env, langfuse, pc, details, callVariables, gets,
                 compiledText, outcome, apiVars>>

NextSession ==
  \/ Connected
  \/ ParticipantJoins
  \/ FirstGetRejects(1)
  \/ FirstGetResolves(1)
  \/ SecondGetRejects(1)
  \/ SecondGetResolves(1)
  \/ PromptReturns
  \/ PromptThrows
  \/ ImportSettles
  \/ SayResolves

SpecSession == InitSession /\ [][NextSession]_vars

(***************************************************************************)
(* The API server: the conversations table and the handler of              *)
(* POST /api/conversations.                                                *)
(***************************************************************************)
\* what the prompt resolver holds, which the API server never touches
promptVars ==
  <<env, langfuse, pc, details, callVariables, gets, compiledText, outcome>>

kCompleteScreen ==
  <<"c", "o", "m", "p", "l", "e", "t", "e", "_", "s", "c", "r", "e", "e", "n">>
tAudioVideo == <<"a", "u", "d", "i", "o", "_", "v", "i", "d", "e", "o">>
tAudioOnly == <<"a", "u", "d", "i", "o", "_", "o", "n", "l", "y">>
tVideo == <<"v", "i", "d", "e", "o">>
tVoice == <<"v", "o", "i", "c", "e">>
tWebhook == <<"h", "t", "t", "p", "s", ":", "/", "/", "w">>
tAcme == <<"A", "c", "m", "e">>

\* SQL NULL, as distinct from the JSON value null
SqlNull == [t |-> "sqlnull"]

\* the uuid type of the id column: its input conversion accepts
\* hexadecimal digits in either case and stores them in lower case (the
\* fixed length and the hyphens of the text form are not represented)
UpperHex == [c \in {"A", "B", "C", "D", "E", "F"} |->
               CASE c = "A" -> "a" [] c = "B" -> "b" [] c = "C" -> "c"
                 [] c = "D" -> "d" [] c = "E" -> "e" [] c = "F" -> "f"]
HexChars == DigitSet \cup {"a", "b", "c", "d", "e", "f"} \cup DOMAIN UpperHex
IsUuidText(s) == s # <<>> /\ \A i \in 1..Len(s) : s[i] \in HexChars
UuidIn(s) ==
  [i \in 1..Len(s) |-> IF s[i] \in DOMAIN UpperHex THEN UpperHex[s[i]] ELSE s[i]]

\* the ids randomUUID can generate
FreshUuids == {<<"f", "1">>, <<"f", "2">>}

\* the columns of the table initDb creates
CreatedColumns ==
  {"id", "conversation_type", "prompt_name", "prompt_label", "agent_name",
   "webhook_link", "company_name", "prompt_text", "agent_description",
   "media_mode", "prompt_variables", "ui_variables", "complete_screen",
   "created_at"}

\* the columns initDb adds to an existing table, in its order
AddedColumns ==
  <<"prompt_variables", "ui_variables", "company_name", "prompt_text",
    "agent_description", "complete_screen", "media_mode">>

\* the columns of a table created by a deployment that kept meta_data
LegacyColumns ==
  {"id", "conversation_type", "prompt_name", "prompt_label", "agent_name",
   "webhook_link", "created_at", "meta_data"}

\* a body with the three required fields and nothing else
MinimalBody ==
  [kind |-> "object", id |-> Undefined, conversation_type |-> Str(tVoice),
   prompt_name |-> Undefined, prompt_label |-> Undefined,
   agent_name |-> Str(<<"A">>), agent_description |-> Undefined,
   webhook_link |-> Str(tWebhook), company_name |-> Undefined,
   media_mode |-> Undefined, prompt_variables |-> Undefined,
   ui_variables |-> Undefined, prompt_text |-> Undefined]

\* the request bodies: readJsonBody rejects the malformed one and resolves
\* to null for the text null
Bodies ==
  {MinimalBody,
   [MinimalBody EXCEPT !.id = Str(<<"a", "1">>),
                       !.media_mode = Str(tAudioVideo),
                       !.prompt_name = Str(tGreeting),
                       !.prompt_label = Str(tV2),
                       !.prompt_text = Str(tHi),
                       !.prompt_variables = Obj(kA :> Str(<<"x">>)),
                       !.ui_variables =
                          Obj(kCompleteScreen :> Obj(kA :> Str(<<"y">>)))],
   [MinimalBody EXCEPT !.id = Str(<<"A", "1">>),
                       !.agent_name = Str(<<"B">>),
                       !.media_mode = Str(tVideo),
                       !.company_name = Str(tAcme),
                       !.agent_description = Str(tHi),
                       !.prompt_variables = Str(<<"x">>),
                       !.ui_variables = Arr(<<Str(<<"x">>)>>)],
   [MinimalBody EXCEPT !.id = Str(<<"b", "2">>),
                       !.media_mode = Str(tAudioOnly),
                       !.ui_variables = Obj(kCompleteScreen :> Str(<<"x">>))],
   [MinimalBody EXCEPT !.id = Str(<<" ">>), !.media_mode = Null],
   [MinimalBody EXCEPT !.id = Str(<<>>)],
   [MinimalBody EXCEPT !.id = Str(<<"z", "z">>)],
   [MinimalBody EXCEPT !.id = Num(5)],
   [MinimalBody EXCEPT !.id = Str(<<"a", "1">>), !.agent_name = Undefined],
   [MinimalBody EXCEPT !.id = Str(<<"b", "2">>), !.webhook_link = Str(<<>>)],
   [MinimalBody EXCEPT !.conversation_type = Null],
   [kind |-> "malformed"],
   [kind |-> "null"]}

\* value ?? null, as a query parameter
OrNull(v) == IF Nullish(v) THEN SqlNull ELSE v

\* (v && typeof v === 'object') ? v : {}
ObjectOrEmpty(v) ==
  IF Truthy(v) /\ v.t \in {"object", "array"} THEN v ELSE EmptyObj

\* (ui_variables || {})?.complete_screen || {}
CompleteScreen(body) ==
  LET found == IF Truthy(body.ui_variables)
               THEN GetProp(body.ui_variables, kCompleteScreen)
               ELSE Undefined
  IN  IF Truthy(found) THEN found ELSE EmptyObj

\* media_mode === 'audio_video' ? 'audio_video' : 'audio_only'
MediaMode(v) ==
  IF v = Str(tAudioVideo) THEN Str(tAudioVideo) ELSE Str(tAudioOnly)

\* a row that would be inserted beside the row holding the same id
Upsert_InsertOnly(rows, row) == rows \cup {row}

\* insert ... on conflict (id) do update set ...; the columns the statement
\* does not name keep the conflicting row's values
Upsert(rows, row) == {old \in rows : old.id # row.id} \cup {row}

\* the row insertConversation writes for the handler's id and body; a json
\* parameter is stored as the value it denotes
RowOf(id, body) ==
  [id |-> UuidIn(id),
   conversation_type |-> body.conversation_type,
   prompt_name |-> OrNull(body.prompt_name),
   prompt_label |-> OrNull(body.prompt_label),
   agent_name |-> body.agent_name,
   webhook_link |-> body.webhook_link,
   company_name |-> OrNull(body.company_name),
   prompt_text |-> OrNull(body.prompt_text),
   agent_description |-> OrNull(body.agent_description),
   media_mode |-> MediaMode(MediaMode(body.media_mode)),
   prompt_variables |-> ObjectOrEmpty(body.prompt_variables),
   ui_variables |-> ObjectOrEmpty(body.ui_variables),
   complete_screen |-> ObjectOrEmpty(CompleteScreen(body)),
   meta_data |-> SqlNull]

\* a row written by a deployment that kept meta_data, as the added columns'
\* defaults complete it
LegacyRow(metaData) ==
  [id |-> <<"a", "1">>,
   conversation_type |-> Str(tVoice),
   prompt_name |-> Str(tGreeting),
   prompt_label |-> SqlNull,
   agent_name |-> Str(<<"A">>),
   webhook_link |-> Str(tWebhook),
   company_name |-> SqlNull,
   prompt_text |-> SqlNull,
   agent_description |-> SqlNull,
   media_mode |-> Str(tAudioOnly),
   prompt_variables |-> EmptyObj,
   ui_variables |-> EmptyObj,
   complete_screen |-> EmptyObj,
   meta_data |-> metaData]

\* coalesce((meta_data->key)::jsonb, '{}'::jsonb)
MetaDataMember(metaData, key) ==
  IF metaData.t = "object" /\ key \in DOMAIN metaData.m
  THEN metaData.m[key]
  ELSE EmptyObj

kPromptVariables ==
  <<"p", "r", "o", "m", "p", "t", "_", "v", "a", "r", "i", "a", "b", "l",
    "e", "s">>
kUiVariables == <<"u", "i", "_", "v", "a", "r", "i", "a", "b", "l", "e", "s">>

\* update conversations set ... where meta_data is not null
Migrated(row) ==
  IF row.meta_data = SqlNull THEN row
  ELSE [row EXCEPT
          !.prompt_variables = MetaDataMember(row.meta_data, kPromptVariables),
          !.ui_variables = MetaDataMember(row.meta_data, kUiVariables)]

\* the databases the server may be started on: none yet, one of the
\* current schema, and one that still has the meta_data column
Databases ==
  {[table |-> FALSE, columns |-> {}, rows |-> {}, writes |-> <<>>],
   [table |-> TRUE, columns |-> CreatedColumns, rows |-> {}, writes |-> <<>>],
   [table |-> TRUE, columns |-> CreatedColumns,
    rows |-> {[LegacyRow(SqlNull) EXCEPT !.id = <<"b", "2">>]},
    writes |-> <<>>],
   [table |-> TRUE, columns |-> LegacyColumns, rows |-> {}, writes |-> <<>>],
   [table |-> TRUE, columns |-> LegacyColumns,
    rows |-> {LegacyRow(Obj(kPromptVariables :> Obj(kA :> Str(<<"x">>))))},
    writes |-> <<>>]}

\* the server is listening; no request has arrived
InitApi ==
  /\ InitWith({})
  /\ ~env.LANGFUSE_PUBLIC_KEY /\ ~env.LANGFUSE_SECRET_KEY
  /\ NoSession
  /\ db \in Databases
  /\ posts = [r \in PostIds |-> [NoPost EXCEPT !.pc = "idle"]]
  /\ issued = {}

\* the handler writes its response and returns
Respond(p, status, id) ==
  [p EXCEPT !.pc = "done", !.status = status, !.responseId = id]

\* the handler's catch block
Caught(p) == Respond(p, 400, Undefined)

\* the three required fields, each || ''
Valid(body) ==
  /\ Truthy(body.agent_name)
  /\ Truthy(body.webhook_link)
  /\ Truthy(body.conversation_type)

\* validation left out
Receive_Unvalidated(r) ==
  /\ posts[r].pc = "idle"
  /\ \E body \in Bodies :
       posts' = [posts EXCEPT ![r] =
                   IF body.kind # "object"
                   THEN Caught([@ EXCEPT !.body = body])
                   ELSE [@ EXCEPT !.pc = "create", !.body = body,
                                  !.calls = <<"initDb">>]]
  /\ UNCHANGED <<promptVars, session, db, issued>>

\* the body of a request has been read: the handler runs to its response
\* or to the first query of initDb
Receive(r) ==
  /\ posts[r].pc = "idle"
  /\ \E body \in Bodies :
       posts' = [posts EXCEPT ![r] =
                   IF body.kind # "object"
                   THEN Caught([@ EXCEPT !.body = body])
                   ELSE IF ~Valid(body)
                   THEN Respond([@ EXCEPT !.body = body], 400, Undefined)
                   ELSE [@ EXCEPT !.pc = "create", !.body = body,
                                  !.calls = <<"initDb">>]]
  /\ UNCHANGED <<promptVars, session, db, issued>>

\* create table if not exists conversations
CreateTable(r) ==
  /\ posts[r].pc = "create"
  /\ db' = IF db.table THEN db
           ELSE [db EXCEPT !.table = TRUE, !.columns = CreatedColumns]
  /\ posts' = [posts EXCEPT ![r] = [@ EXCEPT !.pc = "add", !.adding = 1]]
  /\ UNCHANGED <<promptVars, session, issued>>

\* alter table conversations add column if not exists, one column at a time
AddColumn(r) ==
  /\ posts[r].pc = "add"
  /\ db' = [db EXCEPT !.columns = @ \cup {AddedColumns[posts[r].adding]}]
  /\ posts' = [posts EXCEPT ![r] =
                 IF @.adding < Len(AddedColumns)
                 THEN [@ EXCEPT !.adding = @ + 1]
                 ELSE [@ EXCEPT !.pc = "check"]]
  /\ UNCHANGED <<promptVars, session, issued>>

\* initDb has resolved for the request in state p: the handler picks the id
\* and calls insertConversation
AfterInitDb(r, p) ==
  IF Truthy(p.body.id) /\ p.body.id.t # "string"
  THEN /\ posts' = [posts EXCEPT ![r] = Caught(p)]
       /\ issued' = issued
  ELSE IF Truthy(p.body.id) /\ Trim(p.body.id.s) # <<>>
  THEN /\ posts' = [posts EXCEPT ![r] =
                      [p EXCEPT !.pc = "insert", !.id = p.body.id.s,
                                !.calls = Append(@, "insertConversation")]]
       /\ issued' = issued
  ELSE \E id \in FreshUuids \ issued :
         /\ posts' = [posts EXCEPT ![r] =
                        [p EXCEPT !.pc = "insert", !.id = id,
                                  !.calls = Append(@, "insertConversation")]]
         /\ issued' = issued \cup {id}

\* select 1 from information_schema.columns ... column_name = 'meta_data'
CheckMetaData(r) ==
  /\ posts[r].pc = "check"
  /\ IF "meta_data" \in db.columns
     THEN /\ posts' = [posts EXCEPT ![r] =
                         [@ EXCEPT !.pc = "update", !.metaDataExists = TRUE]]
          /\ issued' = issued
     ELSE AfterInitDb(r, posts[r])
  /\ UNCHANGED <<promptVars, session, db>>

\* update conversations set ... where meta_data is not null; the statement
\* fails when the column is gone
UpdateFromMetaData(r) ==
  /\ posts[r].pc = "update"
  /\ IF "meta_data" \in db.columns
     THEN /\ db' = [db EXCEPT !.rows = {Migrated(row) : row \in @}]
          /\ posts' = [posts EXCEPT ![r] = [@ EXCEPT !.pc = "drop"]]
     ELSE /\ db' = db
          /\ posts' = [posts EXCEPT ![r] = Caught(@)]
  /\ UNCHANGED <<promptVars, session, issued>>

\* alter table conversations drop column if exists meta_data
DropMetaData(r) ==
  /\ posts[r].pc = "drop"
  /\ db' = [db EXCEPT !.columns = @ \ {"meta_data"},
                      !.rows = {[row EXCEPT !.meta_data = SqlNull] : row \in @}]
  /\ AfterInitDb(r, posts[r])
  /\ UNCHANGED <<promptVars, session>>

\* the insert of insertConversation; the statement fails when the id is
\* not the text of a uuid
Insert(r) ==
  /\ posts[r].pc = "insert"
  /\ IF IsUuidText(posts[r].id)
     THEN /\ db' = [db EXCEPT
                      !.rows = Upsert(@, RowOf(posts[r].id, posts[r].body)),
                      !.writes = Append(@, [post |-> r,
                                            id |-> UuidIn(posts[r].id)])]
          /\ posts' = [posts EXCEPT ![r] = Respond(@, 200, Str(@.id))]
     ELSE /\ db' = db
          /\ posts' = [posts EXCEPT ![r] = Caught(@)]
  /\ UNCHANGED <<promptVars, session, issued>>

NextApi ==
  \E r \in PostIds :
    \/ Receive(r)
    \/ CreateTable(r)
    \/ AddColumn(r)
    \/ CheckMetaData(r)
    \/ UpdateFromMetaData(r)
    \/ DropMetaData(r)
    \/ Insert(r)

SpecApi == InitApi /\ [][NextApi]_vars

(***************************************************************************)
(* Vocabulary of the properties, stated on the request and on the log of    *)
(* remote calls rather than through the operators of generatePrompt.       *)
(***************************************************************************)
Done(c) == pc[c] = "done"

\* the request carries a prompt name
NameGiven(d) == d.prompt_name.t = "string" /\ d.prompt_name.s # <<>>

\* the request carries a label
LabelGiven(d) == d.prompt_label.t = "string" /\ d.prompt_label.s # <<>>

\* the request carries inline text that is not empty after trimming
InlineGiven(d) ==
  /\ d.prompt_text.t = "string"
  /\ \E i \in 1..Len(d.prompt_text.s) : d.prompt_text.s[i] \notin SpaceChars

\* the request carries inline text that consists of white space only
InlineBlank(d) ==
  /\ d.prompt_text.t = "string"
  /\ d.prompt_text.s # <<>>
  /\ \A i \in 1..Len(d.prompt_text.s) : d.prompt_text.s[i] \in SpaceChars

\* one of the two credentials is missing from the environment
CredentialsAbsent == ~env.LANGFUSE_PUBLIC_KEY \/ ~env.LANGFUSE_SECRET_KEY

\* the text without its leading and trailing white space, for a text that
\* holds a character that is not white space
Stripped(s) ==
  LET solid == {i \in 1..Len(s) : s[i] \notin SpaceChars}
      first == CHOOSE i \in solid : \A j \in solid : i <= j
      last == CHOOSE i \in solid : \A j \in solid : j <= i
  IN  SubSeq(s, first, last)

\* no part of the text is a placeholder
NoPlaceholder(s) == \A i \in 1..Len(s) : ~MatchAt(s, i).found

\* the last remote call of c resolved to a prompt object
LastResolvedToPrompt(c) ==
  /\ gets[c] # <<>>
  /\ gets[c][Len(gets[c])].end = "resolved"
  /\ ~Nullish(gets[c][Len(gets[c])].fetched)

\* what the last remote call of c resolved to
LastFetched(c) == gets[c][Len(gets[c])].fetched

\* the message of the validation error
MissingName == "Missing prompt_name in details"

tHiMissing ==
  <<"H", "i", " ", "{", "{", " ", "m", "i", "s", "s", "i", "n", "g", ".",
    "p", "a", "t", "h", " ", "}", "}">>

(***************************************************************************)
(* C1  A prompt name is required only when no inline text is given: a       *)
(* request whose inline text is not blank resolves to that text with the   *)
(* variables substituted even when the name is absent; in particular       *)
(* {inlineText: "Hi {{ missing.path }}", variables: {}} resolves to "Hi ". *)
(* The code raises the validation error instead.                           *)
(***************************************************************************)
C1_InlineTextNeedsNoName ==
  \A c \in CallIds :
    Done(c) /\ InlineGiven(details[c]) /\ ~NameGiven(details[c])
      => /\ outcome[c].kind = "returned"
         /\ (/\ details[c].prompt_text = Str(tHiMissing)
             /\ details[c].prompt_variables = EmptyObj)
              => outcome[c] = Returned(tHi)

(***************************************************************************)
(* C2  Called with a name, generatePrompt never throws and always returns  *)
(* a string, whatever the remote service does.  The code lets the          *)
(* exception of String(value) escape on the inline path.                   *)
(***************************************************************************)
C2_NeverThrowsWithName ==
  \A c \in CallIds :
    Done(c) /\ NameGiven(details[c]) => outcome[c].kind = "returned"

(***************************************************************************)
(* C3  Inline text that is not blank means no call of the remote service,  *)
(* whatever the client, name and label are; inline text of white space     *)
(* only counts as absent, and resolution goes on with the remote tier (a   *)
(* call is made) or, without a client, with the static tier.               *)
(***************************************************************************)
C3_InlineTextMakesNoRemoteCall ==
  \A c \in CallIds :
    /\ InlineGiven(details[c]) => gets[c] = <<>>
    /\ (pc[c] \in {"get1", "get2", "done"} /\ InlineBlank(details[c])
          /\ NameGiven(details[c]))
         => IF langfuse = "client"
            THEN gets[c] # <<>>
            ELSE outcome[c] = Returned(DEFAULT_PROMPT)

C3_Witness ==
  \E c \in CallIds :
    /\ Done(c) /\ InlineGiven(details[c]) /\ NameGiven(details[c])
    /\ LabelGiven(details[c]) /\ langfuse = "client"
    /\ outcome[c].kind = "returned" /\ gets[c] = <<>>

(***************************************************************************)
(* C4  When both lookups fail, or the lookup yields no result, or          *)
(* compiling the fetched prompt fails, generatePrompt returns exactly the  *)
(* static default template and does not raise.                             *)
(***************************************************************************)
C4_RemoteFailureFallsBackToStatic ==
  \A c \in CallIds :
    (/\ Done(c)
     /\ gets[c] # <<>>
     /\ \/ (Len(gets[c]) = 2 /\ gets[c][2].end = "rejected")
        \/ (gets[c][Len(gets[c])].end = "resolved" /\ Nullish(LastFetched(c)))
        \/ (LastResolvedToPrompt(c) /\ LastFetched(c).compile = "throws")
        \/ (LastResolvedToPrompt(c) /\ ~compiledText[c].ok))
      => outcome[c] = Returned(DEFAULT_PROMPT)

C4_Witness ==
  \E c \in CallIds :
    /\ Done(c) /\ Len(gets[c]) = 2
    /\ gets[c][1].end = "rejected" /\ gets[c][2].end = "rejected"
    /\ outcome[c] = Returned(DEFAULT_PROMPT)

(***************************************************************************)
(* C5  As claimed: with a credential absent and no inline text,            *)
(* generatePrompt returns the static default template and calls the        *)
(* remote service not at all.  Fails for a request without a name.         *)
(***************************************************************************)
C5_NoCredentialsStaticFallback ==
  \A c \in CallIds :
    CredentialsAbsent
      => /\ gets[c] = <<>>
         /\ (Done(c) /\ ~InlineGiven(details[c]))
              => outcome[c] = Returned(DEFAULT_PROMPT)

(***************************************************************************)
(* C5  As amended: with a credential absent the remote service is never    *)
(* called, and a request with a name and no inline text resolves to the    *)
(* static default template; a request with neither name nor inline text    *)
(* is rejected with the validation error.                                  *)
(***************************************************************************)
C5_NoCredentialsStaticFallbackNamed ==
  \A c \in CallIds :
    CredentialsAbsent
      => /\ langfuse = "null"
         /\ gets[c] = <<>>
         /\ (Done(c) /\ ~InlineGiven(details[c]))
              => IF NameGiven(details[c])
                 THEN outcome[c] = Returned(DEFAULT_PROMPT)
                 ELSE outcome[c] = Thrown(MissingName)

C5_Witness ==
  \E c \in CallIds :
    /\ CredentialsAbsent /\ env.LANGFUSE_PUBLIC_KEY
    /\ Done(c) /\ ~InlineGiven(details[c]) /\ NameGiven(details[c])
    /\ outcome[c] = Returned(DEFAULT_PROMPT)

(***************************************************************************)
(* C6  A request with neither a name nor inline text is rejected with the  *)
(* validation error, before any remote lookup and without the static       *)
(* fallback, whether or not the client is configured.                      *)
(***************************************************************************)
C6_MissingNameIsRejected ==
  \A c \in CallIds :
    (Done(c) /\ ~NameGiven(details[c]) /\ ~InlineGiven(details[c]))
      => /\ outcome[c] = Thrown(MissingName)
         /\ gets[c] = <<>>

C6_Witness ==
  \E c \in CallIds :
    /\ Done(c) /\ ~NameGiven(details[c]) /\ ~InlineGiven(details[c])
    /\ langfuse = "client"
    /\ outcome[c] = Thrown(MissingName)

\* compiling the prompt the last remote call resolved to threw nothing
CompileSucceeded(c) ==
  /\ compiledText[c].ok
  /\ toStringPrompt(compiledText[c].value).ok

\* the string form of what compiling that prompt yielded
Compilation(c) == toStringPrompt(compiledText[c].value).text

\* the labelled lookup of c threw and the unlabelled one returned a prompt
LabelledFailedUnlabelledFound(c) ==
  /\ Done(c)
  /\ LabelGiven(details[c])
  /\ Len(gets[c]) = 2
  /\ gets[c][1].end = "rejected"
  /\ LastResolvedToPrompt(c)

(***************************************************************************)
(* C7  As claimed: when the labelled lookup throws and the unlabelled      *)
(* lookup returns a prompt, generatePrompt returns the compilation of      *)
(* that prompt and not the static fallback.  Fails when compiling the      *)
(* unlabelled prompt throws: the static fallback is returned then.         *)
(***************************************************************************)
C7_UnlabelledResultIsUsed ==
  \A c \in CallIds :
    LabelledFailedUnlabelledFound(c)
      => /\ CompileSucceeded(c)
         /\ outcome[c] = Returned(Compilation(c))

(***************************************************************************)
(* C7  As amended: when the labelled lookup throws and the unlabelled      *)
(* lookup returns a prompt, generatePrompt returns the compilation of      *)
(* that prompt (what its compile function returns, or its prompt text      *)
(* with the variables substituted) whenever compiling succeeds, and the    *)
(* static fallback when compiling throws.                                  *)
(***************************************************************************)
C7_UnlabelledResultIsUsedIfCompiled ==
  \A c \in CallIds :
    LabelledFailedUnlabelledFound(c)
      => IF CompileSucceeded(c)
         THEN /\ outcome[c] = Returned(Compilation(c))
              /\ (LastFetched(c).compile = "returns"
                    /\ LastFetched(c).returns.t = "string")
                   => outcome[c] = Returned(LastFetched(c).returns.s)
              /\ (LastFetched(c).compile = "absent"
                    /\ LastFetched(c).prompt = Str(tHi))
                   => outcome[c] = Returned(tHi)
         ELSE outcome[c] = Returned(DEFAULT_PROMPT)

C7_Witness ==
  \E c \in CallIds :
    /\ LabelledFailedUnlabelledFound(c)
    /\ gets[c][1].call.label = Str(tV2)
    /\ LastFetched(c).compile = "absent"
    /\ LastFetched(c).prompt = Str(tHi)
    /\ outcome[c] = Returned(tHi)

(***************************************************************************)
(* C8  A call of generatePrompt makes at most two calls of the remote      *)
(* service; the second is made only after the first has failed and         *)
(* carries no label; when a label is given, the first call carries it, so  *)
(* the labelled call precedes the unlabelled one.                          *)
(***************************************************************************)
C8_AtMostTwoCallsLabelledFirst ==
  \A c \in CallIds :
    /\ Len(gets[c]) <= 2
    /\ Len(gets[c]) = 2
         => /\ gets[c][1].end = "rejected"
            /\ gets[c][2].call.label = Undefined
    /\ (gets[c] # <<>> /\ LabelGiven(details[c]))
         => gets[c][1].call.label = details[c].prompt_label
    /\ \A i \in 1..Len(gets[c]) : gets[c][i].call.name = details[c].prompt_name

C8_Witness ==
  \E c \in CallIds :
    /\ Len(gets[c]) = 2
    /\ LabelGiven(details[c])
    /\ gets[c][1].call.label = Str(tV2)
    /\ gets[c][2].call.label = Undefined
    /\ gets[c][2].end = "pending"

(***************************************************************************)
(* C9  As claimed: a template without placeholder given as inline text is  *)
(* returned unchanged, character for character, leading and trailing       *)
(* white space included, for every variable mapping.  Fails, even for a    *)
(* request that carries a name, when the text begins or ends with white    *)
(* space.                                                                  *)
(***************************************************************************)
C9_InlineTemplateUnchanged ==
  \A c \in CallIds :
    (/\ Done(c)
     /\ NameGiven(details[c])
     /\ InlineGiven(details[c])
     /\ NoPlaceholder(details[c].prompt_text.s))
      => outcome[c] = Returned(details[c].prompt_text.s)

(***************************************************************************)
(* C9  As amended: for a template without placeholder and every variable   *)
(* mapping, inline text is returned with its leading and trailing white    *)
(* space removed and otherwise unchanged, whenever generatePrompt returns, *)
(* and it returns whenever the request carries a name; the text of a       *)
(* fetched prompt that has no compile function is returned unchanged,      *)
(* white space included.                                                   *)
(***************************************************************************)
C9_InlineTemplateTrimmedOnly ==
  \A c \in CallIds :
    /\ (/\ Done(c)
        /\ InlineGiven(details[c])
        /\ NoPlaceholder(details[c].prompt_text.s))
         => /\ NameGiven(details[c]) => outcome[c].kind = "returned"
            /\ outcome[c].kind = "returned"
                 => outcome[c].value = Stripped(details[c].prompt_text.s)
    /\ (/\ Done(c)
        /\ LastResolvedToPrompt(c)
        /\ LastFetched(c).compile = "absent"
        /\ LastFetched(c).prompt.t = "string"
        /\ NoPlaceholder(LastFetched(c).prompt.s))
         => outcome[c] = Returned(LastFetched(c).prompt.s)

C9_Witness ==
  \E c \in CallIds :
    /\ Done(c)
    /\ details[c].prompt_text = Str(<<" ">> \o tHi)
    /\ details[c].prompt_variables = Obj(kA :> Str(<<"x", "y">>))
    /\ outcome[c] = Returned(<<"H", "i">>)

\* the dotted paths of the placeholders of Pieces
Paths ==
  {<<kA>>, <<kA, kB>>, <<kA, kLength>>, <<kToString>>,
   <<<<"m", "i", "s", "s", "i", "n", "g">>, <<"p", "a", "t", "h">>>>}

\* the placeholders for a path, without and with inner white space
PlaceholdersFor(path) ==
  {<<"{", "{">> \o Join(path, <<".">>) \o <<"}", "}">>,
   <<"{", "{", " ">> \o Join(path, <<".">>) \o <<" ", "}", "}">>}

RECURSIVE KeyLookup(_, _)
\* successive key lookup in nested mappings: undefined as soon as a segment
\* is missing or the current value is not a mapping
KeyLookup(value, path) ==
  IF path = <<>> THEN value
  ELSE IF value.t = "object" /\ Head(path) \in DOMAIN value.m
       THEN KeyLookup(value.m[Head(path)], Tail(path))
       ELSE Undefined

\* the variable mapping of a request: the object given, else the empty one
MappingOf(d) ==
  IF d.prompt_variables.t = "object" THEN d.prompt_variables ELSE EmptyObj

(***************************************************************************)
(* C10  A placeholder whose dotted path is not fully resolvable by         *)
(* successive key lookup in the nested mappings renders as the empty       *)
(* string and never raises: only keys present in the mappings can produce  *)
(* output.  The code follows the path through strings, arrays and          *)
(* inherited properties as well.                                           *)
(***************************************************************************)
C10_UnresolvablePathRendersEmpty ==
  \A c \in CallIds :
    \A path \in Paths :
      (/\ Done(c)
       /\ NameGiven(details[c])
       /\ details[c].prompt_text.t = "string"
       /\ details[c].prompt_text.s \in PlaceholdersFor(path)
       /\ KeyLookup(MappingOf(details[c]), path) = Undefined)
        => outcome[c] = Returned(<<>>)

\* the dotted paths of the placeholders of SubstitutionTemplates
SubstitutionPaths == {<<kA>>, <<kB>>, <<kA, kB>>, <<kUser, kName>>}

\* the text in front of and behind the placeholder of a template
Surroundings ==
  {<<<<>>, <<>>>>,
   <<tHi, <<"!">>>>,
   <<<<"H", "e", "l", "l", "o", " ">>, <<"!">>>>}

\* String(v) for the values the mappings of SubstitutionVariables hold
StringForm(v) ==
  CASE v.t = "string" -> v.s
    [] v.t = "null" -> <<"n", "u", "l", "l">>
    [] v.t = "object" ->
         <<"[", "o", "b", "j", "e", "c", "t", " ",
           "O", "b", "j", "e", "c", "t", "]">>

\* call c substituted the variables into template t by manual substitution:
\* t is the inline text, or the text of the prompt fetched last, which has
\* no compile function
SubstitutedInto(c, t) ==
  IF InlineGiven(details[c])
  THEN t = Stripped(details[c].prompt_text.s)
  ELSE /\ LastResolvedToPrompt(c)
       /\ LastFetched(c).compile = "absent"
       /\ LastFetched(c).prompt = Str(t)

\* the request of the scenario, answered by the labelled lookup
HelloScenario(c) ==
  /\ Done(c)
  /\ details[c].prompt_name = Str(tGreeting)
  /\ details[c].prompt_label = Str(tV2)
  /\ details[c].prompt_text = Undefined
  /\ details[c].prompt_variables = Obj(kUser :> Obj(kName :> Str(tAda)))
  /\ Len(gets[c]) = 1
  /\ gets[c][1].call = [name |-> Str(tGreeting), label |-> Str(tV2)]
  /\ gets[c][1].end = "resolved"
  /\ gets[c][1].fetched = PromptObject(Str(tHello), "absent", Undefined)

tHelloAda == <<"H", "e", "l", "l", "o", " ", "A", "d", "a", "!">>

(***************************************************************************)
(* C11  As claimed: a placeholder whose dotted path resolves in the        *)
(* mapping by successive key lookup is replaced by the string form of the  *)
(* value found, with or without white space inside the braces, the text    *)
(* around it kept; {{ a.b }} with {a: {b: "x"}} yields x, and the scenario *)
(* of the labelled lookup yields "Hello Ada!".  Fails for a value of null, *)
(* whose string form is "null": the code renders it as the empty string.   *)
(***************************************************************************)
C11_ResolvedPathRendersStringForm ==
  \A c \in CallIds :
    /\ \A path \in SubstitutionPaths :
         \A ph \in PlaceholdersFor(path) :
           \A around \in Surroundings :
             (/\ Done(c)
              /\ NameGiven(details[c])
              /\ details[c].prompt_variables.t = "object"
              /\ KeyLookup(details[c].prompt_variables, path) # Undefined
              /\ SubstitutedInto(c, around[1] \o ph \o around[2]))
               => outcome[c] =
                    Returned(around[1]
                             \o StringForm(KeyLookup(details[c].prompt_variables,
                                                     path))
                             \o around[2])
    /\ HelloScenario(c) => outcome[c] = Returned(tHelloAda)

\* what a value found renders as: nothing for null, else its string form
Rendered(v) == IF v = Null THEN <<>> ELSE StringForm(v)

(***************************************************************************)
(* C11  As amended: a placeholder whose dotted path resolves in the        *)
(* mapping by successive key lookup is replaced by the string form of the  *)
(* value found when that value is not null, and by the empty string when   *)
(* it is null, with or without white space inside the braces, the text     *)
(* around it kept; {{ a.b }} with {a: {b: "x"}} yields x, and the scenario *)
(* of the labelled lookup yields "Hello Ada!".                             *)
(***************************************************************************)
C11_ResolvedPathRendersValue ==
  \A c \in CallIds :
    /\ \A path \in SubstitutionPaths :
         \A ph \in PlaceholdersFor(path) :
           \A around \in Surroundings :
             (/\ Done(c)
              /\ NameGiven(details[c])
              /\ details[c].prompt_variables.t = "object"
              /\ KeyLookup(details[c].prompt_variables, path) # Undefined
              /\ SubstitutedInto(c, around[1] \o ph \o around[2]))
               => outcome[c] =
                    Returned(around[1]
                             \o Rendered(KeyLookup(details[c].prompt_variables,
                                                   path))
                             \o around[2])
    /\ (/\ Done(c)
        /\ NameGiven(details[c])
        /\ details[c].prompt_text = Str(<<"{", "{", " ", "a", ".", "b", " ", "}", "}">>)
        /\ details[c].prompt_variables = Obj(kA :> Obj(kB :> Str(<<"x">>))))
         => outcome[c] = Returned(<<"x">>)
    /\ HelloScenario(c) => outcome[c] = Returned(tHelloAda)

C11_Witness ==
  \E c \in CallIds : HelloScenario(c) /\ outcome[c] = Returned(tHelloAda)

\* call c ran the manual substitution on a template
ManuallySubstituted(c) ==
  \/ InlineGiven(details[c])
  \/ /\ LastResolvedToPrompt(c)
     /\ LastFetched(c).compile = "absent"
     /\ LastFetched(c).prompt.t = "string"

\* that template: the inline text, else the text of the prompt fetched last
TemplateUsed(c) ==
  IF InlineGiven(details[c]) THEN Stripped(details[c].prompt_text.s)
  ELSE LastFetched(c).prompt.s

RECURSIVE Erased(_)
\* the text with every placeholder taken out
Erased(s) ==
  LET starts == {j \in 1..Len(s) : MatchAt(s, j).found}
  IN  IF starts = {} THEN s
      ELSE LET j == CHOOSE h \in starts : \A g \in starts : h <= g
           IN  SubSeq(s, 1, j - 1)
               \o Erased(SubSeq(s, MatchAt(s, j).last + 1, Len(s)))

\* the variables of the request are text that is no JSON, or are, or are
\* the JSON text of, something that is not an object
MalformedVariables(d) ==
  \/ d.prompt_variables.t \in {"number", "boolean", "array"}
  \/ /\ d.prompt_variables.t = "string"
     /\ d.prompt_variables.s \in InvalidJsonTexts \cup PrimitiveJsonTexts
                                   \cup ArrayJsonTexts

(***************************************************************************)
(* C12  When the variables are a string that is not valid JSON, or are or  *)
(* parse to something that is not an object, generatePrompt does not raise *)
(* and every placeholder of the resolved template renders as the empty     *)
(* string.  The code renders {{ toString }} from the prototype of the      *)
(* empty mapping, and keeps an array as the mapping.                       *)
(***************************************************************************)
C12_MalformedVariablesRenderEmpty ==
  \A c \in CallIds :
    (Done(c) /\ NameGiven(details[c]) /\ MalformedVariables(details[c]))
      => /\ outcome[c].kind = "returned"
         /\ ManuallySubstituted(c)
              => outcome[c] = Returned(Erased(TemplateUsed(c)))

\* everything call c holds: its position, its argument and its locals
CallState(c) ==
  <<pc[c], details[c], callVariables[c], gets[c], compiledText[c], outcome[c]>>

\* the result of generatePrompt(d) run alone with the client handle client
\* and the remote service answering as in log
Alone(d, client, log) ==
  IF BeforeGet(d, client, VariablesOf(d)) # Pending
  THEN BeforeGet(d, client, VariablesOf(d))
  ELSE IF log[Len(log)].end = "rejected" THEN Fallback(VariablesOf(d))
  ELSE Finish(CompiledText(log[Len(log)].fetched, VariablesOf(d)),
              VariablesOf(d))

\* a step belongs to one call and leaves what the others hold, and the
\* client handle, as they are; a call that has ended has the result it
\* has when run alone on its request and the answers it got
IsolatedStep ==
  /\ langfuse' = langfuse
  /\ env' = env
  /\ \E c \in CallIds : \A o \in CallIds \ {c} : CallState(o)' = CallState(o)
  /\ \A c \in CallIds :
       pc'[c] = "done" => outcome'[c] = Alone(details'[c], langfuse', gets'[c])

(***************************************************************************)
(* C13  Concurrent resolutions do not interfere: in every interleaving of  *)
(* two calls suspended at their remote lookups, no step of one call        *)
(* changes what the other holds, the client handle is never reassigned,    *)
(* and each call ends with the result it produces when run alone with the  *)
(* same request and the same remote responses.                             *)
(***************************************************************************)
C13_ConcurrentCallsDoNotInterfere == [][IsolatedStep]_vars

C13_Witness ==
  /\ pc[1] = "done"
  /\ Len(gets[1]) = 2
  /\ gets[1][2].end = "resolved"
  /\ gets[1][2].fetched = PromptObject(Str(tPlaceA), "absent", Undefined)
  /\ details[1].prompt_variables = Obj(kA :> Str(<<"x", "y">>))
  /\ outcome[1] = Returned(<<"x", "y">>)
  /\ pc[2] = "get2"
  /\ details[2].prompt_variables = Obj(kA :> Obj(kB :> Str(<<"x">>)))

C16_SubstitutionIsSinglePass ==
  \A c \in CallIds :
    (/\ Done(c)
     /\ NameGiven(details[c])
     /\ ManuallySubstituted(c)
     /\ details[c].prompt_variables.t = "object")
      => /\ outcome[c].kind = "returned"
         /\ \A key \in {kA, kB} :
              (/\ TemplateUsed(c) \in PlaceholdersFor(<<key>>)
               /\ KeyLookup(details[c].prompt_variables, <<key>>).t = "string")
                => outcome[c] =
                     Returned(KeyLookup(details[c].prompt_variables, <<key>>).s)
         /\ (/\ TemplateUsed(c) = tPlaceA \o tPlaceB
             /\ details[c].prompt_variables =
                  Obj((kA :> Str(tPlaceB)) @@ (kB :> Str(<<"x">>))))
              => outcome[c] = Returned(tPlaceB \o <<"x">>)

C16_Witness ==
  \E c \in CallIds :
    /\ Done(c)
    /\ details[c].prompt_text = Str(tPlaceA)
    /\ details[c].prompt_variables = Obj(kA :> Str(tPlaceA))
    /\ outcome[c] = Returned(tPlaceA)

(***************************************************************************)
(* C14: in the session entry point generatePrompt is invoked exactly once   *)
(* per session, after the participant has joined and before the agent is   *)
(* started; the string it returns is the text of the single SYSTEM message *)
(* of the initial chat context; the agent is started and speaks the        *)
(* initial content only after the resolution has completed.                *)
(***************************************************************************)
ParticipantJoined == session.pc \notin {"off", "connecting", "waiting"}

C14_PromptResolvedOncePerSession ==
  /\ session.invocations = (IF ParticipantJoined THEN 1 ELSE 0)
  /\ (pc[1] # "off") <=> (session.invocations = 1)
  /\ ~Done(1) =>
        /\ ~session.agentStarted
        /\ session.said = Undefined
        /\ session.chatCtx = <<>>
  /\ session.chatCtx # <<>> =>
        /\ outcome[1].kind = "returned"
        /\ session.chatCtx = <<[role |-> "SYSTEM", text |-> outcome[1].value]>>
  /\ session.agentStarted => session.chatCtx # <<>>
  /\ session.said # Undefined =>
        /\ session.agentStarted
        /\ session.said = Str(session.initial_content)

\* a session whose prompt came from the second lookup has started its agent
\* and spoken the initial content the variables give
C14_Witness ==
  /\ session.pc = "ended"
  /\ session.agentStarted
  /\ session.said = Str(<<"H", "i">>)
  /\ Len(gets[1]) = 2
  /\ outcome[1].kind = "returned"
  /\ outcome[1].value # <<>>
  /\ session.chatCtx = <<[role |-> "SYSTEM", text |-> outcome[1].value]>>

(***************************************************************************)
(* Vocabulary of the properties of the API server, stated on the request   *)
(* bodies, the responses and the log of writes.                            *)
(***************************************************************************)
\* the request's body has been read
Arrived(r) == posts[r].pc \notin {"off", "idle"}

\* the handler has answered
Answered(r) == posts[r].pc = "done"

\* a field of the body is missing or empty
Absent(v) == v \in {Undefined, Null, Str(<<>>)}

\* the body is an object in which a required field is missing or empty
LacksRequired(body) ==
  /\ body.kind = "object"
  /\ \/ Absent(body.agent_name)
     \/ Absent(body.webhook_link)
     \/ Absent(body.conversation_type)

\* two texts of the same uuid: the digits agree up to their case
SameUuid(a, b) ==
  /\ Len(a) = Len(b)
  /\ \A i \in 1..Len(a) :
        \/ a[i] = b[i]
        \/ <<a[i], b[i]>> \in {<<"a", "A">>, <<"b", "B">>, <<"c", "C">>,
                               <<"d", "D">>, <<"e", "E">>, <<"f", "F">>,
                               <<"A", "a">>, <<"B", "b">>, <<"C", "c">>,
                               <<"D", "d">>, <<"E", "e">>, <<"F", "f">>}

\* the writes of request r
WritesOf(r) == {k \in 1..Len(db.writes) : db.writes[k].post = r}

(***************************************************************************)
(* C17: POST /api/conversations validates before it persists: when one of  *)
(* agent_name, webhook_link and conversation_type is missing or empty the  *)
(* response is 400, neither initDb nor insertConversation is invoked and   *)
(* the request writes nothing; a row is written only by a request that     *)
(* then answers 200 with that row's id.                                    *)
(***************************************************************************)
C17_ValidatesBeforePersisting ==
  /\ \A r \in PostIds :
        Arrived(r) /\ LacksRequired(posts[r].body) =>
          /\ Answered(r)
          /\ posts[r].status = 400
          /\ posts[r].calls = <<>>
          /\ WritesOf(r) = {}
  /\ \A k \in 1..Len(db.writes) :
        LET r == db.writes[k].post
        IN  /\ Answered(r)
            /\ posts[r].status = 200
            /\ posts[r].calls = <<"initDb", "insertConversation">>
            /\ SameUuid(posts[r].responseId.s, db.writes[k].id)
            /\ \E row \in db.rows : row.id = db.writes[k].id

\* one request lacked agent_name and was refused without a query, while
\* the other wrote the row of the id it was given
C17_Witness ==
  /\ Answered(1) /\ posts[1].body.kind = "object"
  /\ posts[1].body.agent_name = Undefined
  /\ posts[1].status = 400 /\ posts[1].calls = <<>>
  /\ Answered(2) /\ posts[2].status = 200
  /\ posts[2].responseId = Str(<<"a", "1">>)
  /\ db.writes = <<[post |-> 2, id |-> <<"a", "1">>]>>
  /\ \E row \in db.rows : row.id = <<"a", "1">>

(***************************************************************************)
(* C18: persistence is an upsert keyed by id: after any successful POSTs   *)
(* the table holds at most one row per conversation id, the row's fields   *)
(* are those of the most recent successful POST with that id, media_mode   *)
(* is 'audio_only' or 'audio_video', and the id in the response is the     *)
(* request's id when it is given and not blank, else a fresh one.          *)
(***************************************************************************)
\* the body gives an id that is not blank
IdGiven(body) ==
  /\ body.id.t = "string"
  /\ \E i \in 1..Len(body.id.s) : body.id.s[i] \notin SpaceChars

\* the stored form of an optional text field
StoredText(v) == IF v \in {Undefined, Null} THEN SqlNull ELSE v

\* the stored form of a field that holds a JSON object
StoredObject(v) == IF v.t \in {"object", "array"} THEN v ELSE EmptyObj

\* the complete_screen member of the body's ui_variables
ScreenOf(body) ==
  IF /\ body.ui_variables.t = "object"
     /\ kCompleteScreen \in DOMAIN body.ui_variables.m
  THEN StoredObject(body.ui_variables.m[kCompleteScreen])
  ELSE EmptyObj

\* the row carries the fields of the body
Carries(row, body) ==
  /\ row.conversation_type = body.conversation_type
  /\ row.agent_name = body.agent_name
  /\ row.webhook_link = body.webhook_link
  /\ row.prompt_name = StoredText(body.prompt_name)
  /\ row.prompt_label = StoredText(body.prompt_label)
  /\ row.company_name = StoredText(body.company_name)
  /\ row.prompt_text = StoredText(body.prompt_text)
  /\ row.agent_description = StoredText(body.agent_description)
  /\ row.media_mode = (IF body.media_mode = Str(tAudioVideo)
                       THEN Str(tAudioVideo) ELSE Str(tAudioOnly))
  /\ row.prompt_variables = StoredObject(body.prompt_variables)
  /\ row.ui_variables = StoredObject(body.ui_variables)
  /\ row.complete_screen = ScreenOf(body)

\* the last write of the id written by write k
LastWrite(k) ==
  CHOOSE l \in k..Len(db.writes) :
    /\ db.writes[l].id = db.writes[k].id
    /\ \A m \in (l + 1)..Len(db.writes) : db.writes[m].id # db.writes[k].id

C18_UpsertKeyedById ==
  /\ \A row, other \in db.rows : SameUuid(row.id, other.id) => row = other
  /\ \A row \in db.rows : row.media_mode \in {Str(tAudioOnly), Str(tAudioVideo)}
  /\ \A k \in 1..Len(db.writes) :
        \E row \in db.rows :
          /\ row.id = db.writes[k].id
          /\ Carries(row, posts[db.writes[LastWrite(k)].post].body)
  /\ \A r \in PostIds :
        Answered(r) /\ posts[r].status = 200 =>
          IF IdGiven(posts[r].body)
          THEN posts[r].responseId = posts[r].body.id
          ELSE /\ posts[r].responseId.s \in issued
               /\ \A o \in PostIds \ {r} :
                     Answered(o) /\ posts[o].status = 200 =>
                       posts[o].responseId # posts[r].responseId

\* two successful requests gave the same uuid with different fields, and
\* the table holds the one row of the later
C18_Witness ==
  /\ Len(db.writes) = 2
  /\ db.writes[1].id = db.writes[2].id
  /\ posts[db.writes[1].post].body.agent_name = Str(<<"A">>)
  /\ posts[db.writes[2].post].body.agent_name = Str(<<"B">>)
  /\ posts[db.writes[2].post].body.media_mode = Str(tVideo)
  /\ \E row \in db.rows :
        /\ db.rows = {row}
        /\ row.agent_name = Str(<<"B">>)
        /\ row.media_mode = Str(tAudioOnly)

(***************************************************************************)
(* C19: schema initialisation is safe under concurrent requests: for any   *)
(* interleaving of two concurrently handled valid POST requests, also on a *)
(* database that still has the meta_data column, both complete initDb      *)
(* without error, both get a 200 response and both rows are persisted.     *)
(***************************************************************************)
\* a body the handler is meant to accept
ValidPost(body) ==
  /\ body.kind = "object"
  /\ ~LacksRequired(body)
  /\ \/ ~IdGiven(body) /\ body.id.t \in {"undefined", "null", "string"}
     \/ IdGiven(body) /\ IsUuidText(body.id.s)

C19_ConcurrentInitDbIsSafe ==
  \A r \in PostIds :
    Answered(r) /\ ValidPost(posts[r].body) =>
      /\ posts[r].calls = <<"initDb", "insertConversation">>
      /\ posts[r].status = 200
      /\ \E row \in db.rows : SameUuid(row.id, posts[r].responseId.s)

====
